---- MODULE Spec2Model ----
(***************************************************************************)
(* A model of streamlit_app.py, the Toronto crime volume dashboard.        *)
(*                                                                         *)
(* The script is re-executed from top to bottom on every user interaction. *)
(* One action of the model is one such execution: the interaction changes  *)
(* a widget's state and the whole script (cached load, guards, filters,    *)
(* charts, metric cards) runs on the new widget state.                     *)
(*                                                                         *)
(* Text is modelled as a sequence of one-character strings, so that the    *)
(* number formatting of the metric cards is computed and can be parsed.    *)
(***************************************************************************)
EXTENDS Integers, Sequences, FiniteSets, TLC

VARIABLES
    file,               \* the CSV file at DATA_FILENAME (the program's input)
    status,             \* where the last execution of the script ended
    crime_df,           \* the module-level crime_df (result of get_crime_data)
    from_year,          \* slider value, lower end
    to_year,            \* slider value, upper end
    selected_hoods,     \* multiselect value, in the order the user picked
    selectbox_state,    \* the bar chart selectbox's stored widget state
    bar_selected_hood,  \* the value the selectbox returned in the last run
    out,                \* what the last execution put on the page
    first_crime,        \* metric block input (SpecMetric)
    last_crime,         \* metric block input (SpecMetric)
    names               \* filter input (SpecFilter)

vars == <<file, status, crime_df, from_year, to_year, selected_hoods,
          selectbox_state, bar_selected_hood, out, first_crime, last_crime, names>>

----------------------------------------------------------------------------
(* Bounds and encodings *)

\* Longest input file, in data rows.
MaxRows == 2

\* pd.NA in the nullable Int64 Year column.
NA == -1
\* A Year cell of the file whose text is not a number.
BadYear == -2
\* NaN in the Total_Crimes column (an empty cell of the file).
NaN == -3
\* Python's None: no record was found for the neighbourhood and year.
None == -4
\* The year the loader labels 'Forecast'.
FORECAST_YEAR == 2025

\* Neighbourhood names, in the order sorted() puts them.
AreaOrder == <<"AreaA", "X">>
Areas == {AreaOrder[i] : i \in 1..Len(AreaOrder)}
FileYears == {2024, 2025, BadYear}
FileTotals == {NaN, 0, 100}
DataTypes == {"Historical", "Forecast"}
WideVals == {10, 20}
\* Values fed to the metric block in SpecMetric.
MetricVals == {-50, 0, 1, 20, 100, 150, 160, 2000, 2001}

\* Rows of a long-form file; Data_Type is "" when the file has no such column.
LongRows(hasDT) ==
    [AREA_NAME : Areas, Year : FileYears, Total_Crimes : FileTotals,
     Data_Type : IF hasDT THEN DataTypes ELSE {""}]
\* Rows of a legacy wide-form file with columns AREA_NAME, 2014, 2015.
WideRows == [AREA_NAME : Areas, c2014 : WideVals, c2015 : WideVals]

MissingFile == [kind |-> "missing", hasDataType |-> FALSE, rows |-> <<>>, wide |-> <<>>]
WideFile(w) == [kind |-> "wide", hasDataType |-> FALSE, rows |-> <<>>, wide |-> w]
LongFile(dt, r) == [kind |-> "long", hasDataType |-> dt, rows |-> r, wide |-> <<>>]

\* The input files of the model: no file, a wide-form file, or a long-form
\* file with or without a Data_Type column, of at most MaxRows data rows.
IsInputFile(f) ==
    \/ f = MissingFile
    \/ \E k \in 0..MaxRows : \E w \in [1..k -> WideRows] : f = WideFile(w)
    \/ \E dt \in BOOLEAN : \E k \in 0..MaxRows :
         \E r \in [1..k -> LongRows(dt)] : f = LongFile(dt, r)

----------------------------------------------------------------------------
(* Text *)

DigitChars == <<"0", "1", "2", "3", "4", "5", "6", "7", "8", "9">>
Digit(d) == DigitChars[d + 1]

RECURSIVE Digits(_)
\* str() of a natural number.
Digits(n) == IF n < 10 THEN <<Digit(n)>> ELSE Digits(n \div 10) \o <<Digit(n % 10)>>

RECURSIVE Grouped(_)
\* The ',' option of the format spec: digits in groups of three.
Grouped(n) ==
    IF n < 1000 THEN Digits(n)
    ELSE Grouped(n \div 1000)
         \o <<",", Digit((n % 1000) \div 100), Digit((n % 100) \div 10), Digit(n % 10)>>

Abs(x) == IF x < 0 THEN -x ELSE x

\* f'{x:,.0f}' of an integral value.
Fixed0(x) == IF x < 0 THEN <<"-">> \o Grouped(-x) ELSE Grouped(x)

\* |num/den| rounded to the nearest tenth, as a count of tenths.  The code
\* rounds the double it computed, not the exact quotient: where the exact
\* quotient lies halfway between two tenths, the rounding error of the
\* float division and multiplication decides the direction (2000 -> 2001
\* prints 0.1, 80 -> 103 prints 28.7).  tieUp is that direction.
RoundTenths(num, den, tieUp) ==
    LET a == Abs(num) * 10
        b == Abs(den)
        q == a \div b
        r == a % b
    IN  IF 2 * r > b THEN q + 1
        ELSE IF 2 * r < b THEN q
        ELSE IF tieUp THEN q + 1 ELSE q

\* f'{x:,.1f}' of x = num/den: the sign is the float's sign, so a negative
\* value that rounds to zero, and 0/negative, print as -0.0.
Fixed1(num, den, tieUp) ==
    LET t == RoundTenths(num, den, tieUp)
        neg == IF num = 0 THEN den < 0 ELSE (num < 0) # (den < 0)
    IN  (IF neg THEN <<"-">> ELSE <<>>)
        \o Grouped(t \div 10) \o <<".", Digit(t % 10)>>

STR_NA == <<"N", "/", "A">>
STR_na == <<"n", "/", "a">>
STR_NewData == <<"N", "e", "w", " ", "D", "a", "t", "a">>
STR_pdNA == <<"<", "N", "A", ">">>

----------------------------------------------------------------------------
(* Data loading: get_crime_data *)

LongColumns == {"AREA_NAME", "Year", "Total_Crimes"}
EmptyFrame == [columns |-> LongColumns, rows |-> <<>>]

\* pd.read_csv: one row per data line, with index labels 0, 1, ...
read_csv(f) ==
    IF f.kind = "wide"
    THEN [columns |-> {"AREA_NAME", "2014", "2015"},
          rows |-> [i \in 1..Len(f.wide) |->
                      [index |-> i - 1, AREA_NAME |-> f.wide[i].AREA_NAME,
                       c2014 |-> f.wide[i].c2014, c2015 |-> f.wide[i].c2015]]]
    ELSE [columns |-> IF f.hasDataType THEN LongColumns \cup {"Data_Type"}
                      ELSE LongColumns,
          rows |-> [i \in 1..Len(f.rows) |->
                      [index |-> i - 1, AREA_NAME |-> f.rows[i].AREA_NAME,
                       Year |-> f.rows[i].Year,
                       Total_Crimes |-> f.rows[i].Total_Crimes,
                       Data_Type |-> f.rows[i].Data_Type]]]

\* pd.to_numeric(errors='coerce').astype('Int64') of one cell.
to_numeric(y) == IF y = BadYear THEN NA ELSE y

\* The lambda with its two labels exchanged.
DataTypeOf_swapped(x) ==
    IF x = NA THEN "TypeError"
    ELSE IF x = FORECAST_YEAR THEN "Historical" ELSE "Forecast"

\* The lambda of the Data_Type column.  x == 2025 is pd.NA for a missing
\* year, and the conditional expression cannot take its truth value.
DataTypeOf(x) ==
    IF x = NA THEN "TypeError"
    ELSE IF x = FORECAST_YEAR THEN "Forecast" ELSE "Historical"

\* Lines 34-44 of get_crime_data on the frame read: [status, error, df].
\* status is "ok" or the exception that left the function; error says whether
\* st.error was called.
normalize(raw) ==
    IF "Year" \notin raw.columns
    THEN [status |-> "KeyError", error |-> FALSE, df |-> EmptyFrame]
    ELSE
      LET typed == [i \in 1..Len(raw.rows) |->
                      [raw.rows[i] EXCEPT !.Year = to_numeric(@)]]
          kept == SelectSeq(typed, LAMBDA r : r.Total_Crimes # NaN)
      IN  IF "Data_Type" \in raw.columns
          THEN [status |-> "ok", error |-> FALSE,
                df |-> [columns |-> raw.columns, rows |-> kept]]
          ELSE IF \E i \in 1..Len(kept) : DataTypeOf(kept[i].Year) = "TypeError"
          THEN [status |-> "TypeError", error |-> FALSE, df |-> EmptyFrame]
          ELSE [status |-> "ok", error |-> FALSE,
                df |-> [columns |-> raw.columns \cup {"Data_Type"},
                        rows |-> [i \in 1..Len(kept) |->
                                    [kept[i] EXCEPT
                                       !.Data_Type = DataTypeOf(kept[i].Year)]]]]

\* A loader whose read is not guarded: the missing file's exception leaves it.
get_crime_data_unguarded(f) ==
    IF f.kind = "missing"
    THEN [status |-> "FileNotFoundError", error |-> FALSE, df |-> EmptyFrame]
    ELSE normalize(read_csv(f))

\* get_crime_data(): a missing file is reported with st.error and an empty
\* frame is returned; any other file is read and normalized.
get_crime_data(f) ==
    IF f.kind = "missing"
    THEN [status |-> "ok", error |-> TRUE, df |-> EmptyFrame]
    ELSE normalize(read_csv(f))

----------------------------------------------------------------------------
(* Filters *)

Range(s) == {s[i] : i \in 1..Len(s)}

\* A comparison of a nullable Int64 cell is pd.NA when the cell is pd.NA;
\* True & NA is NA, and .loc drops the rows whose mask is NA.
LE(a, b) == IF a = NA \/ b = NA THEN NA ELSE IF a <= b THEN 1 ELSE 0
EQ(a, b) == IF a = NA \/ b = NA THEN NA ELSE IF a = b THEN 1 ELSE 0
And3(p, q) == IF p = 0 \/ q = 0 THEN 0 ELSE IF p = NA \/ q = NA THEN NA ELSE 1
Bool3(b) == IF b THEN 1 ELSE 0
loc(rows, Mask(_)) == SelectSeq(rows, LAMBDA r : Mask(r) = 1)

\* The line chart's filter with the lower bound exclusive.
filtered_crime_df_exclusive(rows, hoodList, fy, ty) ==
    loc(rows, LAMBDA r : And3(And3(Bool3(r.AREA_NAME \in Range(hoodList)),
                                   LE(r.Year, ty)), LE(fy + 1, r.Year)))
\* filtered_crime_df: the line chart's rows.
filtered_crime_df(rows, hoodList, fy, ty) ==
    loc(rows, LAMBDA r : And3(And3(Bool3(r.AREA_NAME \in Range(hoodList)),
                                   LE(r.Year, ty)), LE(fy, r.Year)))

\* The bar chart's filter without the year range.
bar_chart_df_all_years(rows, hood, fy, ty) ==
    loc(rows, LAMBDA r : Bool3(r.AREA_NAME = hood))

\* bar_chart_df: the bar chart's rows, for the single neighbourhood.
bar_chart_df(rows, hood, fy, ty) ==
    loc(rows, LAMBDA r : And3(And3(Bool3(r.AREA_NAME = hood),
                                   LE(r.Year, ty)), LE(fy, r.Year)))

\* line_chart_data: the filtered rows with Year as text.
line_chart_data(rows) ==
    [i \in 1..Len(rows) |->
        [rows[i] EXCEPT !.Year = IF @ = NA THEN STR_pdNA ELSE Digits(@)]]

----------------------------------------------------------------------------
(* Metric comparison *)

\* first_year_df / last_year_df: the rows of one year, from the unfiltered table.
year_df(rows, y) == loc(rows, LAMBDA r : EQ(r.Year, y))

\* ...loc[df['AREA_NAME'] == hood, 'Total_Crimes'], then .iloc[0] or None.
crime_of(ydf, hood) ==
    LET series == SelectSeq(ydf, LAMBDA r : r.AREA_NAME = hood)
    IN  IF series = <<>> THEN None ELSE series[1].Total_Crimes

\* The trend test with >= in place of >.
PercentPositive_or_zero(last, first) ==
    \/ last - first >= 0 /\ first > 0
    \/ last - first <= 0 /\ first < 0

\* percent_change > 0, for percent_change = ((last - first) / first) * 100.
PercentPositive(last, first) ==
    \/ last - first > 0 /\ first > 0
    \/ last - first < 0 /\ first < 0

\* The metric block testing the base year before the target year.
metric_base_first(hood, first, last, tieUp) ==
    IF first = None \/ first = NaN \/ first = 0
    THEN [label |-> hood,
          value |-> IF last = None \/ last = NaN THEN STR_NA ELSE Fixed0(last),
          delta |-> STR_NewData, delta_color |-> "off"]
    ELSE IF last = None \/ last = NaN
    THEN [label |-> hood, value |-> STR_NA, delta |-> STR_na, delta_color |-> "off"]
    ELSE [label |-> hood, value |-> Fixed0(last),
          delta |-> Fixed1((last - first) * 100, first, tieUp) \o <<"%">>,
          delta_color |-> IF PercentPositive(last, first) THEN "inverse" ELSE "normal"]

\* The metric block without the test for a zero base: the division yields inf.
metric_no_zero_test(hood, first, last, tieUp) ==
    IF last = None \/ last = NaN
    THEN [label |-> hood, value |-> STR_NA, delta |-> STR_na, delta_color |-> "off"]
    ELSE IF first = None \/ first = NaN
    THEN [label |-> hood, value |-> Fixed0(last), delta |-> STR_NewData,
          delta_color |-> "off"]
    ELSE IF first = 0
    THEN [label |-> hood, value |-> Fixed0(last), delta |-> <<"i", "n", "f", "%">>,
          delta_color |-> IF last > 0 THEN "inverse" ELSE "normal"]
    ELSE [label |-> hood, value |-> Fixed0(last),
          delta |-> Fixed1((last - first) * 100, first, tieUp) \o <<"%">>,
          delta_color |-> IF PercentPositive(last, first) THEN "inverse" ELSE "normal"]

\* The body of the metric loop: the arguments of st.metric for one neighbourhood.
metric(hood, first, last, tieUp) ==
    IF last = None \/ last = NaN
    THEN [label |-> hood, value |-> STR_NA, delta |-> STR_na, delta_color |-> "off"]
    ELSE IF first = None \/ first = NaN \/ first = 0
    THEN [label |-> hood, value |-> Fixed0(last), delta |-> STR_NewData,
          delta_color |-> "off"]
    ELSE [label |-> hood, value |-> Fixed0(last),
          delta |-> Fixed1((last - first) * 100, first, tieUp) \o <<"%">>,
          delta_color |-> IF PercentPositive(last, first) THEN "inverse" ELSE "normal"]

\* The base year taken from the slider's lower end.
START_COMPARE_YEAR_from(fy, ty) == fy
START_COMPARE_YEAR(fy, ty) == ty - 1
END_COMPARE_YEAR(fy, ty) == ty

sorted(S) == SelectSeq(AreaOrder, LAMBDA a : a \in S)
\* list.index, 0-based.
index(list, x) == (CHOOSE i \in 1..Len(list) : list[i] = x) - 1

\* The cards' neighbourhoods without the bar chart's.
comparison_hoods_multiselect_only(sel, bar) == sorted(Range(sel))

\* comparison_hoods: the neighbourhoods that get a metric card.
comparison_hoods(sel, bar) == sorted(Range(sel) \cup {bar})

Min2(a, b) == IF a < b THEN a ELSE b

\* The metric loop: one st.metric per comparison neighbourhood, in column
\* i % len(cols) of st.columns(min(4, len(comparison_hoods))).
metric_cards(rows, hoodList, fy, ty, tieUp) ==
    LET first_year_df == year_df(rows, START_COMPARE_YEAR(fy, ty))
        last_year_df == year_df(rows, END_COMPARE_YEAR(fy, ty))
        ncols == Min2(4, Len(hoodList))
    IN  [i \in 1..Len(hoodList) |->
            [col |-> (i - 1) % ncols,
             card |-> metric(hoodList[i], crime_of(first_year_df, hoodList[i]),
                             crime_of(last_year_df, hoodList[i]), tieUp)]]

----------------------------------------------------------------------------
(* One execution of the script *)

NoChart == [shown |-> FALSE, data |-> <<>>]
Chart(rows) == [shown |-> TRUE, data |-> rows]
NoOut == [error |-> FALSE, warning |-> FALSE, slider |-> FALSE,
          multiselect |-> FALSE, selectbox |-> FALSE,
          line_chart |-> NoChart, bar_chart |-> NoChart, cards |-> <<>>]
\* No stored state for the selectbox (it was not drawn in the last run).
NoWidget == [index |-> NA, value |-> ""]
NoSlider == <<>>

SetMin(S) == CHOOSE x \in S : \A y \in S : x <= y
SetMax(S) == CHOOSE x \in S : \A y \in S : y <= x
\* Series.min() / Series.max() of the Year column skip pd.NA; pd.NA if none is left.
YearsOf(rows) == {rows[i].Year : i \in 1..Len(rows)} \ {NA}
min_year(rows) == IF YearsOf(rows) = {} THEN NA ELSE SetMin(YearsOf(rows))
max_year(rows) == IF YearsOf(rows) = {} THEN NA ELSE SetMax(YearsOf(rows))
hoods(rows) == sorted({rows[i].AREA_NAME : i \in 1..Len(rows)})

\* The result of an execution that ended before the widgets named in o.
Halted(st, df, slider, sel, o) ==
    [status |-> st, crime_df |-> df,
     from_year |-> IF slider = NoSlider THEN NA ELSE slider[1],
     to_year |-> IF slider = NoSlider THEN NA ELSE slider[2],
     selected_hoods |-> sel, selectbox_state |-> NoWidget,
     bar_selected_hood |-> "", out |-> o]

\* st.selectbox(options, index): a selectbox drawn with the same arguments as in
\* the last run returns its stored value; with a new index it is a new widget
\* and returns options[index].
selectbox(options, idx, stored) ==
    IF stored.index = idx THEN stored.value ELSE options[idx + 1]

\* The script from line 46 to its end, on the widget state given: slider is the
\* slider's stored value (NoSlider on the first run), sel the multiselect's,
\* stored_box the selectbox's.  get_crime_data is wrapped in st.cache_data: it
\* runs in the first execution and later executions get the same return value
\* and the same st.error element.  An exception ends the execution with the
\* exception's name as status; a table without any year gives st.slider
\* pd.NA as its bounds, which it rejects ("SliderError").
Script(f, slider, sel, stored_box, tieUp) ==
    LET ld == get_crime_data(f)
        rows == ld.df.rows
    IN
    IF ld.status # "ok"
    THEN Halted(ld.status, ld.df, NoSlider, <<>>, NoOut)
    ELSE IF rows = <<>>
    THEN Halted("stopped_empty", ld.df, NoSlider, <<>>, [NoOut EXCEPT !.error = ld.error])
    ELSE IF min_year(rows) = NA
    THEN Halted("SliderError", ld.df, NoSlider, <<>>, [NoOut EXCEPT !.error = ld.error])
    ELSE
      LET value == IF slider = NoSlider THEN <<min_year(rows), max_year(rows)>>
                   ELSE slider
          fy == value[1]
          ty == value[2]
          o1 == [NoOut EXCEPT !.error = ld.error, !.slider = TRUE, !.multiselect = TRUE]
      IN
      IF sel = <<>>
      THEN Halted("stopped_nosel", ld.df, value, sel, [o1 EXCEPT !.warning = TRUE])
      ELSE
        LET default_hood_index == index(hoods(rows), sel[1])
            bar == selectbox(hoods(rows), default_hood_index, stored_box)
            bars == bar_chart_df(rows, bar, fy, ty)
        IN  [status |-> "rendered", crime_df |-> ld.df,
             from_year |-> fy, to_year |-> ty, selected_hoods |-> sel,
             selectbox_state |-> [index |-> default_hood_index, value |-> bar],
             bar_selected_hood |-> bar,
             out |-> [o1 EXCEPT
                        !.line_chart =
                            Chart(line_chart_data(filtered_crime_df(rows, sel, fy, ty))),
                        !.selectbox = TRUE,
                        !.bar_chart = IF bars # <<>> THEN Chart(bars) ELSE NoChart,
                        !.cards = metric_cards(rows, comparison_hoods(sel, bar),
                                               fy, ty, tieUp)]]

\* The state after an execution with result r.
Ran(r) ==
    /\ status' = r.status
    /\ crime_df' = r.crime_df
    /\ from_year' = r.from_year
    /\ to_year' = r.to_year
    /\ selected_hoods' = r.selected_hoods
    /\ selectbox_state' = r.selectbox_state
    /\ bar_selected_hood' = r.bar_selected_hood
    /\ out' = r.out
    /\ UNCHANGED <<file, first_crime, last_crime, names>>

----------------------------------------------------------------------------
(* The session: Spec *)

Init ==
    /\ IsInputFile(file)
    /\ status = "start"
    /\ crime_df = EmptyFrame
    /\ from_year = NA
    /\ to_year = NA
    /\ selected_hoods = <<>>
    /\ selectbox_state = NoWidget
    /\ bar_selected_hood = ""
    /\ out = NoOut
    /\ first_crime = None
    /\ last_crime = None
    /\ names = <<>>

\* The browser opens the page: the first execution, every widget at its default.
\* No two FileTotals make the percent change a tie between two tenths, so the
\* tie direction is not observable in a session.
StartSession ==
    /\ status = "start"
    /\ \E r \in {Script(file, NoSlider, <<>>, NoWidget, FALSE)} : Ran(r)

\* The user drags an end of the year slider.
MoveSlider ==
    /\ out.slider
    /\ \E fy \in min_year(crime_df.rows)..max_year(crime_df.rows) :
       \E ty \in fy..max_year(crime_df.rows) :
          /\ <<fy, ty>> # <<from_year, to_year>>
          /\ \E r \in {Script(file, <<fy, ty>>, selected_hoods, selectbox_state, FALSE)} : Ran(r)

\* The user picks one more neighbourhood in the multiselect.
AddHood ==
    /\ out.multiselect
    /\ \E h \in Range(hoods(crime_df.rows)) \ Range(selected_hoods) :
          \E r \in {Script(file, <<from_year, to_year>>, Append(selected_hoods, h),
                     selectbox_state, FALSE)} : Ran(r)

\* The user removes one neighbourhood from the multiselect.
RemoveHood ==
    /\ out.multiselect
    /\ \E h \in Range(selected_hoods) :
          \E r \in {Script(file, <<from_year, to_year>>,
                     SelectSeq(selected_hoods, LAMBDA x : x # h),
                     selectbox_state, FALSE)} : Ran(r)

\* The user picks a neighbourhood in the bar chart's selectbox.
PickBarHood ==
    /\ out.selectbox
    /\ \E h \in Range(hoods(crime_df.rows)) \ {bar_selected_hood} :
          \E r \in {Script(file, <<from_year, to_year>>, selected_hoods,
                     [selectbox_state EXCEPT !.value = h], FALSE)} : Ran(r)

Next == StartSession \/ MoveSlider \/ AddHood \/ RemoveHood \/ PickBarHood

Spec == Init /\ [][Next]_vars

----------------------------------------------------------------------------
(* The two filters as functions of their inputs: SpecFilter *)

\* The filters read AREA_NAME and Year only; the input files here vary in
\* those, and in whether dropna removes the row.
FilterRows == [AREA_NAME : Areas, Year : FileYears, Total_Crimes : {NaN, 100},
               Data_Type : {"Historical"}]
FilterYears == {2024, 2025}

InitFilter ==
    /\ \E k \in 0..MaxRows : \E r \in [1..k -> FilterRows] : file = LongFile(TRUE, r)
    /\ status = "filter_in"
    /\ crime_df = get_crime_data(file).df
    /\ from_year \in FilterYears
    /\ to_year \in FilterYears
    /\ names \in {sorted(S) : S \in SUBSET Areas}
    /\ selected_hoods = <<>>
    /\ selectbox_state = NoWidget
    /\ bar_selected_hood = ""
    /\ out = NoOut
    /\ first_crime = None
    /\ last_crime = None

\* Lines 99-103 on the inputs.
ApplyLineFilter ==
    /\ status = "filter_in"
    /\ status' = "filter_line"
    /\ out' = [NoOut EXCEPT !.line_chart =
                 Chart(filtered_crime_df(crime_df.rows, names, from_year, to_year))]
    /\ UNCHANGED <<file, crime_df, from_year, to_year, selected_hoods,
                   selectbox_state, bar_selected_hood, first_crime, last_crime, names>>

\* Lines 139-143 on the inputs, for any single neighbourhood.
ApplyBarFilter ==
    /\ status = "filter_in"
    /\ status' = "filter_bar"
    /\ \E h \in Areas :
         /\ bar_selected_hood' = h
         /\ out' = [NoOut EXCEPT !.bar_chart =
                      Chart(bar_chart_df(crime_df.rows, h, from_year, to_year))]
    /\ UNCHANGED <<file, crime_df, from_year, to_year, selected_hoods,
                   selectbox_state, first_crime, last_crime, names>>

NextFilter == ApplyLineFilter \/ ApplyBarFilter

SpecFilter == InitFilter /\ [][NextFilter]_vars

----------------------------------------------------------------------------
(* The metric block as a function of the two looked-up values: SpecMetric *)

InitMetric ==
    /\ first_crime \in MetricVals \cup {None}
    /\ last_crime \in MetricVals \cup {None}
    /\ status = "metric_in"
    /\ file = MissingFile
    /\ crime_df = EmptyFrame
    /\ from_year = NA
    /\ to_year = NA
    /\ selected_hoods = <<>>
    /\ selectbox_state = NoWidget
    /\ bar_selected_hood = ""
    /\ out = NoOut
    /\ names = <<>>

\* Lines 225-248 on the inputs; either direction for a tie between two tenths.
ComputeMetric ==
    /\ status = "metric_in"
    /\ status' = "metric_out"
    /\ \E tieUp \in BOOLEAN :
         out' = [NoOut EXCEPT !.cards =
                   <<[col |-> 0, card |-> metric("AreaA", first_crime, last_crime, tieUp)]>>]
    /\ UNCHANGED <<file, crime_df, from_year, to_year, selected_hoods,
                   selectbox_state, bar_selected_hood, first_crime, last_crime, names>>

NextMetric == ComputeMetric

SpecMetric == InitMetric /\ [][NextMetric]_vars

----------------------------------------------------------------------------
(* Reading the page back: helpers of the properties below *)

IsDigit(c) == \E d \in 1..10 : DigitChars[d] = c
DigitVal(c) == (CHOOSE d \in 1..10 : DigitChars[d] = c) - 1

\* Digits in groups of three from the right, separated by commas.
WellGrouped(cs) ==
    /\ cs # <<>>
    /\ cs[1] # ","
    /\ \A i \in 1..Len(cs) :
         IF (Len(cs) - i + 1) % 4 = 0 THEN cs[i] = "," ELSE IsDigit(cs[i])

RECURSIVE NumberOf(_)
\* The number a grouped digit string denotes.
NumberOf(cs) ==
    IF cs = <<>> THEN 0
    ELSE LET front == SubSeq(cs, 1, Len(cs) - 1)
             c == cs[Len(cs)]
         IN  IF c = "," THEN NumberOf(front) ELSE NumberOf(front) * 10 + DigitVal(c)

Unsigned(cs) == IF cs # <<>> /\ cs[1] = "-" THEN Tail(cs) ELSE cs

\* A number with exactly one decimal place, followed by a percent sign.
IsPercentLabel(s) ==
    /\ Len(s) >= 4
    /\ s[Len(s)] = "%"
    /\ LET u == Unsigned(SubSeq(s, 1, Len(s) - 1))
       IN  /\ Len(u) >= 3
           /\ IsDigit(u[Len(u)])
           /\ u[Len(u) - 1] = "."
           /\ WellGrouped(SubSeq(u, 1, Len(u) - 2))

\* The value of a percent label, in tenths of a percent.
LabelTenths(s) ==
    LET u == Unsigned(SubSeq(s, 1, Len(s) - 1))
        t == NumberOf(SubSeq(u, 1, Len(u) - 2)) * 10 + DigitVal(u[Len(u)])
    IN  IF s[1] = "-" THEN -t ELSE t

\* The Total_Crimes of the table's first record for (h, y); None without one.
RecordValue(h, y) ==
    LET I == {i \in 1..Len(crime_df.rows) :
                crime_df.rows[i].AREA_NAME = h /\ crime_df.rows[i].Year = y}
    IN  IF I = {} THEN None ELSE crime_df.rows[SetMin(I)].Total_Crimes
TargetValue(h) == RecordValue(h, to_year)
BaseValue(h) == RecordValue(h, to_year - 1)
Absent(v) == v = None \/ v = NaN

Cards == {out.cards[i].card : i \in 1..Len(out.cards)}
NothingRendered(o) == ~o.line_chart.shown /\ ~o.bar_chart.shown /\ o.cards = <<>>
NoControls(o) == ~o.slider /\ ~o.multiselect /\ ~o.selectbox

\* The rows of the table for the neighbourhoods S and the years fy..ty.
RowsInRange(S, fy, ty) ==
    {r \in Range(crime_df.rows) :
        r.AREA_NAME \in S /\ r.Year # NA /\ fy <= r.Year /\ r.Year <= ty}
ExactlyRows(data, S) ==
    /\ Range(data) = RowsInRange(S, from_year, to_year)
    /\ Len(data) = Cardinality(RowsInRange(S, from_year, to_year))

----------------------------------------------------------------------------
(* Properties *)

\* C1: the line chart's filtered view holds exactly the table's rows whose
\* area_name is among the requested names and whose year lies in
\* [from_year, to_year], both ends included; for an empty name list it is empty.
\* The bar chart's view is the same for its single neighbourhood.
C1_FilterExact ==
    /\ status = "filter_line" =>
         /\ ExactlyRows(out.line_chart.data, Range(names))
         /\ names = <<>> => out.line_chart.data = <<>>
    /\ status = "filter_bar" => ExactlyRows(out.bar_chart.data, {bar_selected_hood})

\* A filter that keeps a row whose year is both bounds and drops another row
\* of a requested neighbourhood.
C1_Witness ==
    /\ status = "filter_line"
    /\ from_year = to_year
    /\ out.line_chart.data # <<>>
    /\ \E i \in 1..Len(crime_df.rows) :
         /\ crime_df.rows[i].AREA_NAME \in Range(names)
         /\ crime_df.rows[i].Year = to_year + 1

\* C2: a card whose neighbourhood has no record for the target year (or a null
\* one) shows N/A, the delta n/a and the delta colour off, whatever the base is.
C2_TargetAbsent ==
    status = "rendered" =>
      \A c \in Cards :
         Absent(TargetValue(c.label)) =>
           c.value = STR_NA /\ c.delta = STR_na /\ c.delta_color = "off"

\* A card without a target-year record whose base-year value is present and not 0.
C2_Witness ==
    /\ status = "rendered"
    /\ \E c \in Cards :
         /\ Absent(TargetValue(c.label))
         /\ ~Absent(BaseValue(c.label))
         /\ BaseValue(c.label) # 0

\* C3 as stated: the delta is New Data whenever the base-year value is absent,
\* null or zero, whatever the target value, an absent one included.
C3_Original ==
    status = "rendered" =>
      \A c \in Cards :
         (Absent(BaseValue(c.label)) \/ BaseValue(c.label) = 0) => c.delta = STR_NewData

\* C3, amended: the delta is New Data whenever the base-year value is absent,
\* null or zero and the target-year value is present; every delta label is
\* n/a, New Data or a finite percentage, and a percentage only with a base
\* that is present and not zero.
C3_NewDataWhenTargetPresent ==
    status = "rendered" =>
      \A c \in Cards :
         /\ ((Absent(BaseValue(c.label)) \/ BaseValue(c.label) = 0)
                /\ ~Absent(TargetValue(c.label)))
              => c.delta = STR_NewData /\ c.delta_color = "off"
         /\ \/ c.delta = STR_na
            \/ c.delta = STR_NewData
            \/ /\ IsPercentLabel(c.delta)
               /\ ~Absent(BaseValue(c.label))
               /\ BaseValue(c.label) # 0

\* A card with a zero base-year value and a target-year value.
C3_Witness ==
    /\ status = "rendered"
    /\ \E c \in Cards : BaseValue(c.label) = 0 /\ ~Absent(TargetValue(c.label))

\* C4: with both values present and a non-zero base, the delta label is the
\* percent change to one decimal place with a % suffix (within half a tenth of
\* (current - base) / base * 100), the trend is Up (colour inverse) exactly
\* when the change is above 0 and Down (normal) otherwise, an unchanged value
\* included; base 100 and current 150 give 150, 50.0% and Up.
C4_PercentChange ==
    (status = "metric_out" /\ first_crime # None /\ first_crime # 0
        /\ last_crime # None) =>
      LET c == out.cards[1].card IN
      /\ IsPercentLabel(c.delta)
      /\ 2 * Abs(LabelTenths(c.delta) * first_crime - (last_crime - first_crime) * 1000)
           <= Abs(first_crime)
      /\ c.delta_color =
           IF (last_crime - first_crime) * first_crime > 0 THEN "inverse" ELSE "normal"
      /\ last_crime = first_crime => c.delta_color = "normal"
      /\ (first_crime = 100 /\ last_crime = 150) =>
           /\ c.value = <<"1", "5", "0">>
           /\ c.delta = <<"5", "0", ".", "0", "%">>
           /\ c.delta_color = "inverse"

\* An unchanged value, shown as 0.0% and classified Down.
C4_Witness ==
    /\ status = "metric_out"
    /\ first_crime = 150
    /\ last_crime = 150
    /\ out.cards[1].card.delta = <<"0", ".", "0", "%">>
    /\ out.cards[1].card.delta_color = "normal"

\* C5: with the input file missing the load raises nothing: the table is empty
\* and an error is shown; and after any run whose table is empty the page has
\* no filter control, no chart and no metric card.
C5_MissingFileHalts ==
    status # "start" =>
      /\ file.kind = "missing" =>
           status = "stopped_empty" /\ out.error /\ crime_df.rows = <<>>
      /\ crime_df.rows = <<>> => NoControls(out) /\ NothingRendered(out)

\* A run on a missing file.
C5_Witness ==
    /\ file.kind = "missing"
    /\ status = "stopped_empty"
    /\ out.error

\* The table has rows and a year: the script reaches the multiselect.
DataLoaded == crime_df.rows # <<>> /\ \E r \in Range(crime_df.rows) : r.Year # NA

\* Every row of the table has a year.
AllYearsParsed == \A r \in Range(crime_df.rows) : r.Year # NA

\* C6 as stated, already on tables whose every row has a year: every run with
\* an empty multi-selection shows the warning and renders no chart and no
\* card, and the run in which the selection becomes non-empty renders the line
\* chart, the bar chart and the metric cards.
C6_Original ==
    [][/\ (DataLoaded' /\ selected_hoods' = <<>>) =>
             out'.warning /\ NothingRendered(out')
       /\ (DataLoaded /\ AllYearsParsed
             /\ selected_hoods = <<>> /\ selected_hoods' # <<>>) =>
             out'.line_chart.shown /\ out'.bar_chart.shown /\ out'.cards # <<>>]_vars

\* C6, amended: every run with an empty multi-selection shows the warning and
\* renders no chart and no card, and the run in which the selection becomes
\* non-empty renders the line chart and the metric cards, and the bar chart
\* exactly when the bar chart's neighbourhood has a row in the year range.
C6_HaltUntilSelection ==
    [][/\ (DataLoaded' /\ selected_hoods' = <<>>) =>
             out'.warning /\ NothingRendered(out')
       /\ (DataLoaded /\ selected_hoods = <<>> /\ selected_hoods' # <<>>) =>
             /\ ~out'.warning
             /\ out'.line_chart.shown
             /\ out'.cards # <<>>
             /\ out'.bar_chart.shown <=>
                  \E r \in Range(crime_df'.rows) :
                     /\ r.AREA_NAME = bar_selected_hood'
                     /\ r.Year # NA
                     /\ from_year' <= r.Year
                     /\ r.Year <= to_year']_vars

\* A rendered run after the halt whose bar chart is left out, although the bar
\* chart's neighbourhood has rows outside the year range.
C6_Witness ==
    /\ status = "rendered"
    /\ out.line_chart.shown
    /\ out.cards # <<>>
    /\ ~out.bar_chart.shown
    /\ \E r \in Range(crime_df.rows) : r.AREA_NAME = bar_selected_hood /\ r.Year # NA

\* The script ran and get_crime_data returned a table.
TableReturned == status \in {"stopped_empty", "SliderError", "stopped_nosel", "rendered"}

TypedByYear(r) ==
    r.Data_Type = IF r.Year = FORECAST_YEAR THEN "Forecast" ELSE "Historical"

\* C7 as stated: in the table the loader returns, for every input file, every
\* row with a year has data_type Forecast if its year is 2025, else Historical.
C7_Original ==
    TableReturned => \A r \in Range(crime_df.rows) : r.Year # NA => TypedByYear(r)

\* C7, amended: in the table the loader returns for an input file without a
\* Data_Type column, every row has data_type Forecast if its year is 2025,
\* else Historical (a Data_Type column of the file is kept as it is).
C7_DerivedWhenColumnAbsent ==
    (TableReturned /\ ~file.hasDataType) =>
      /\ crime_df.rows # <<>> => "Data_Type" \in crime_df.columns
      /\ \A r \in Range(crime_df.rows) : TypedByYear(r)

\* A table derived from a file without the column, with both labels.
C7_Witness ==
    /\ TableReturned
    /\ ~file.hasDataType
    /\ \E r \in Range(crime_df.rows) : r.Year = FORECAST_YEAR /\ r.Data_Type = "Forecast"
    /\ \E r \in Range(crime_df.rows) : r.Year # FORECAST_YEAR /\ r.Data_Type = "Historical"

\* C8: a wide-form file with columns AREA_NAME, 2014, 2015 and the one row
\* ("X", 10, 20) is loaded as the rows (X, 2014, 10) and (X, 2015, 20).
C8_WideReshaped ==
    (status # "start"
       /\ file = WideFile(<<[AREA_NAME |-> "X", c2014 |-> 10, c2015 |-> 20]>>)) =>
      /\ TableReturned
      /\ {<<r.AREA_NAME, r.Year, r.Total_Crimes>> : r \in Range(crime_df.rows)}
           = {<<"X", 2014, 10>>, <<"X", 2015, 20>>}
      /\ Len(crime_df.rows) = 2

CardLabels == {c.label : c \in Cards}

\* C9 as stated: the cards are one per neighbourhood of the multi-selection,
\* and no other neighbourhood has a card.
C9_Original ==
    status = "rendered" =>
      /\ CardLabels = Range(selected_hoods)
      /\ Len(out.cards) = Cardinality(Range(selected_hoods))

\* C9, amended: the cards are one per neighbourhood of the multi-selection
\* together with the bar chart's single-select neighbourhood, and no other
\* neighbourhood has a card.
C9_CardsPerComparisonHood ==
    status = "rendered" =>
      /\ CardLabels = Range(selected_hoods) \cup {bar_selected_hood}
      /\ Len(out.cards) = Cardinality(Range(selected_hoods) \cup {bar_selected_hood})

\* The bar chart's neighbourhood is outside the multi-selection and has a card.
C9_Witness ==
    /\ status = "rendered"
    /\ bar_selected_hood \notin Range(selected_hoods)
    /\ bar_selected_hood \in CardLabels

====
